---- MODULE Spec2Model ----
(***************************************************************************)
(* Model of the credit bot: the orchestrator (src/src/credit_bot.py), the  *)
(* state manager (src/src/state_manager.py) and the parts of the Slack,    *)
(* Looker and notebook clients the orchestrator relies on.                 *)
(*                                                                         *)
(* Four specifications are given.                                          *)
(*   Spec     the deployed program: the scheduler starts main(), which     *)
(*            builds the bot, loads the snapshot and calls run_once.       *)
(*   SpecPM   process_message applied to parsed requests that carry the    *)
(*            'looker_urls' list it reads, followed by the recording step  *)
(*            of run_once (credit_bot.py lines 296-304).                   *)
(*   SpecLoop the loop of run_once (lines 286-307) over a list of          *)
(*            unprocessed messages, process_message taken as a whole.      *)
(*   SpecSM   the state manager driven directly through its methods.       *)
(*                                                                         *)
(* Conventions: Python None is the empty tuple <<>> and a present value v  *)
(* is <<v>>; amounts are integers (cents); a joined error string is the    *)
(* sequence of its parts; datetime.now() is the logical clock.             *)
(***************************************************************************)
EXTENDS Integers, Sequences, FiniteSets, TLC

VARIABLES
    pc,                     \* position of the invocation in flight ("idle" when none)
    clock,                  \* logical time, advanced at every invocation
    channel,                \* the channel as conversations_history returns it
    use_s3,                 \* StateManager.use_s3
    local_file,             \* content of Config.STATE_FILE
    s3_object,              \* content of s3://S3_BUCKET/S3_STATE_KEY
    state,                  \* StateManager.state of the invocation in flight
    access_token,           \* LookerClient.access_token is set
    messages,               \* run_once: messages
    unprocessed,            \* run_once: unprocessed
    i,                      \* run_once: position in unprocessed
    parsed,                 \* the parsed request handed to process_message
    result,                 \* process_message: result
    idx,                    \* process_message: loop index (enumerate from 1)
    sql_query,              \* process_message: sql_query of the reference last resolved
    is_verify,              \* process_message: is_verify of the reference last classified
    total_credit,           \* process_message: total_credit
    successful_executions,  \* process_message: successful_executions
    processing_errors,      \* process_message: processing_errors
    calls,                  \* collaborator calls made by the invocation in flight
    log,                    \* logger.error lines written by process_message
    start_processed,        \* processed ids when the invocation loaded the snapshot
    nmarks,                 \* number of direct mark_processed calls made
    last_call,              \* the StateManager method a direct caller called last, with its arguments
    writes,                 \* storage writes attempted by the last load or save
    faults                  \* number of failed storage, Slack-fetch or start-up calls so far

vars == <<pc, clock, channel, use_s3, local_file, s3_object, state, access_token,
          messages, unprocessed, i, parsed, result, idx, sql_query, is_verify,
          total_credit, successful_executions, processing_errors, calls, log,
          start_processed, nmarks, last_call, writes, faults>>

\* ---------------------------------------------------------------- bounds
MaxMsgs == 2
MaxRuns == 2
MaxRefs == 3
MaxMarks == 1
MaxFaults == 1
MaxClock == 5

\* ---------------------------------------------------------------- values
None == <<>>
Some(v) == <<v>>

MsgIds == 1..MaxMsgs

RECURSIVE SeqsUpTo(_, _)
SeqsUpTo(S, n) ==
    IF n = 0 THEN {<<>>}
    ELSE LET shorter == SeqsUpTo(S, n - 1)
         IN  shorter \cup {Append(s, x) : s \in {t \in shorter : Len(t) = n - 1}, x \in S}

\* Message texts, as the sequence of the links (<url|text> items) in them:
\* no link, a link to another tool, a link to another tool and a Looker link.
Texts == {<<>>, <<"zendesk/1">>, <<"zendesk/1", "looker/1">>}

\* Slack messages: ts, whether bot_id or subtype 'bot_message' is set, and the
\* text (the links in it).  The text of a bot message is never read.
Messages ==
    {[ts |-> t, bot |-> FALSE, text |-> x] : t \in MsgIds, x \in Texts}
    \cup {[ts |-> t, bot |-> TRUE, text |-> <<>>] : t \in MsgIds}

\* Report references of a parsed request.
Urls == {"looker/1", "looker/2"}
UrlSeqs == SeqsUpTo(Urls, MaxRefs)

\* SQL texts, as the sequence of the conditions in them: a column followed by
\* the value it is compared with.
SqlQueries ==
    {<<"billable_item_metadata_alex.product", "Authy">>,
     <<"billable_items.friendly_name", "authy">>,
     <<"billable_items.friendly_name", "psms">>,
     <<"customer_name", "authy">>,
     <<"billable_items.friendly_name", "psms", "customer_name", "authy">>}

\* get_sql_from_url returns the SQL or None.
SqlResults == {None} \cup {Some(q) : q \in SqlQueries}

\* Credit amounts in cents.
Amounts == {0, 1000, 2550}

\* The dictionaries NotebookExecutor.execute returns: failure with an error,
\* success with the amount the notebook showed, success without an amount
\* (_extract_summary_info found none).
ExecResults ==
    {[success |-> FALSE, credit_amount |-> None, error |-> Some("execution error")]}
    \cup {[success |-> TRUE, credit_amount |-> Some(a), error |-> None] : a \in Amounts}
    \cup {[success |-> TRUE, credit_amount |-> None, error |-> None]}

\* ------------------------------------------------------- slack_client.py
\* The links a message text can hold, written host/rest: two on the Looker
\* host, one on another host, and one on another host whose query string
\* contains the text 'looker.com'.
Links == {"looker/1", "looker/2", "zendesk/1", "zendesk/?next=looker.com"}

\* 'looker.com' in url.lower(): true of a link that contains the text
\* anywhere, in its host or after it.
contains_looker_com(url) == url \in {"looker/1", "looker/2", "zendesk/?next=looker.com"}

extract_looker_urls(message_text) == SelectSeq(message_text, contains_looker_com)

\* message.get('bot_id') or message.get('subtype') == 'bot_message'
is_bot_message_never(message) == FALSE

is_bot_message(message) == message.bot

\* The dictionary parse_credit_request returns for a message that is not a
\* bot message.  It has the key 'looker_url' (first link) and no 'looker_urls'.
parse_credit_request(message) ==
    LET looker_urls == extract_looker_urls(message.text)
    IN  [message_ts      |-> message.ts,
         text            |-> message.text,
         looker_url      |-> IF Len(looker_urls) > 0 THEN Some(looker_urls[1]) ELSE None,
         user_id         |-> "U1",
         has_looker_link |-> Len(looker_urls) > 0]

\* --------------------------------------------------- notebook_executor.py
Lower(part) == IF part = "Authy" THEN "authy" ELSE part

\* needle in sql_query.lower()
in_sql_lower(needle, query) ==
    \E k \in 1..Len(query) : Lower(query[k]) = needle

is_verify_query_always(query) == TRUE

is_verify_query(query) ==
    IF ~in_sql_lower("authy", query) THEN FALSE
    ELSE \/ in_sql_lower("billable_item_metadata_alex.product", query)
         \/ in_sql_lower("billable_items.friendly_name", query)

\* ------------------------------------------------------ state_manager.py
Absent == [kind |-> "absent"]
Doc(st) == [kind |-> "doc", doc |-> st]

\* A stored file that is not JSON, and one that is JSON without the fields
\* of a snapshot (json.load accepts it).
Invalid == [kind |-> "invalid"]
Fieldless == Doc([other |-> 0])

\* state['processed_messages'] can be read.
has_fields(st) == "processed_messages" \in DOMAIN st

\* A write attempt on the local file or on the S3 object, and its outcome.
Write(target, ok) == [target |-> target, ok |-> ok]

\* No StateManager method has been called directly.
NoCall == [op |-> "none"]

create_empty_state(now) ==
    [processed_messages   |-> <<>>,
     processing_details   |-> <<>>,
     last_check_timestamp |-> None,
     total_processed      |-> 0,
     created_at           |-> now]

is_processed(st, message_ts) ==
    \E k \in 1..Len(st.processed_messages) : st.processed_messages[k] = message_ts

\* mark_processed without the save: the state for a new id, the same state
\* for a known one.  metadata is None or Some(record).
mark_processed_unguarded(st, message_ts, metadata, now) ==
    [st EXCEPT
        !.processed_messages = Append(@, message_ts),
        !.total_processed    = @ + 1,
        !.processing_details =
            IF metadata # None
            THEN (message_ts :> ([processed_at |-> now] @@ metadata[1])) @@ @
            ELSE @]

mark_processed(st, message_ts, metadata, now) ==
    IF is_processed(st, message_ts) THEN st
    ELSE [st EXCEPT
            !.processed_messages = Append(@, message_ts),
            !.total_processed    = @ + 1,
            !.processing_details =
                IF metadata # None
                THEN (message_ts :> ([processed_at |-> now] @@ metadata[1])) @@ @
                ELSE @]

update_last_check_renews_created_at(st, now) ==
    [st EXCEPT !.last_check_timestamp = Some(now), !.created_at = now]

update_last_check_keeps_stamp(st, now) == st

update_last_check_starts_over(st, now) ==
    [create_empty_state(st.created_at) EXCEPT !.last_check_timestamp = Some(now)]

update_last_check(st, now) == [st EXCEPT !.last_check_timestamp = Some(now)]

get_unprocessed_messages_nofilter(st, msgs) == msgs

get_unprocessed_messages(st, msgs) ==
    SelectSeq(msgs, LAMBDA msg : ~is_processed(st, msg.ts))

\* A call that can fail does so only while fewer than MaxFaults calls have
\* failed; used is the number of calls that failed so far.
MayFail(used) == IF used < MaxFaults THEN BOOLEAN ELSE {TRUE}
Cost(ok) == IF ok THEN 0 ELSE 1

\* _load_state: the state it returns and the local file it leaves, given
\* what read_from_s3 returned and whether the mirror write worked.
load_state_prefers_local(s3_content, mirror_ok, now) ==
    IF local_file.kind = "doc"
    THEN [state |-> local_file.doc, local |-> local_file, writes |-> <<>>]
    ELSE IF use_s3 /\ s3_content.kind = "doc"
    THEN [state  |-> s3_content.doc,
          local  |-> IF mirror_ok THEN Doc(s3_content.doc) ELSE local_file,
          writes |-> <<Write("local", mirror_ok)>>]
    ELSE [state |-> create_empty_state(now), local |-> local_file, writes |-> <<>>]

load_state(s3_content, mirror_ok, now) ==
    IF use_s3 /\ s3_content.kind = "doc"
    THEN [state  |-> s3_content.doc,
          local  |-> IF mirror_ok THEN Doc(s3_content.doc) ELSE local_file,
          writes |-> <<Write("local", mirror_ok)>>]
    ELSE IF local_file.kind = "doc"
    THEN [state |-> local_file.doc, local |-> local_file, writes |-> <<>>]
    ELSE [state |-> create_empty_state(now), local |-> local_file, writes |-> <<>>]

\* The outcomes of read_from_s3 and of the mirror write that can occur.
S3ReadChoices(used) ==
    IF use_s3 /\ s3_object.kind = "doc" THEN MayFail(used) ELSE {TRUE}
MirrorChoices(s3_read_ok, used) ==
    IF use_s3 /\ s3_object.kind = "doc" /\ s3_read_ok THEN MayFail(used) ELSE {TRUE}

\* _save_state: the local file always, S3 when enabled; a failed write is
\* logged and leaves the stored document as it was.
save_state_without_records(st, used) ==
    \E local_ok \in MayFail(used) :
    \E s3_ok \in (IF use_s3 THEN MayFail(used + Cost(local_ok)) ELSE {TRUE}) :
        LET written == Doc([st EXCEPT !.processing_details = <<>>])
        IN  /\ local_file' = IF local_ok THEN written ELSE local_file
            /\ s3_object' = IF use_s3 /\ s3_ok THEN written ELSE s3_object
            /\ writes' = <<Write("local", local_ok)>>
                          \o (IF use_s3 THEN <<Write("s3", s3_ok)>> ELSE <<>>)
            /\ faults' = used + Cost(local_ok) + Cost(s3_ok)

save_state_retries(st, used) ==
    \E local_ok \in MayFail(used) :
    \E s3_ok \in (IF use_s3 THEN MayFail(used + Cost(local_ok)) ELSE {TRUE}) :
        /\ local_file' = IF local_ok THEN Doc(st) ELSE local_file
        /\ s3_object' = IF use_s3 THEN Doc(st) ELSE s3_object
        /\ writes' = <<Write("local", local_ok)>>
                      \o (IF use_s3 /\ ~s3_ok THEN <<Write("s3", FALSE)>> ELSE <<>>)
                      \o (IF use_s3 THEN <<Write("s3", TRUE)>> ELSE <<>>)
        /\ faults' = used + Cost(local_ok) + Cost(s3_ok)

save_state_skips_s3(st, used) ==
    \E local_ok \in MayFail(used) :
        /\ local_file' = IF local_ok THEN Doc(st) ELSE local_file
        /\ s3_object' = s3_object
        /\ writes' = <<Write("local", local_ok)>>
        /\ faults' = used + Cost(local_ok)

save_state(st, used) ==
    \E local_ok \in MayFail(used) :
    \E s3_ok \in (IF use_s3 THEN MayFail(used + Cost(local_ok)) ELSE {TRUE}) :
        /\ local_file' = IF local_ok THEN Doc(st) ELSE local_file
        /\ s3_object' = IF use_s3 /\ s3_ok THEN Doc(st) ELSE s3_object
        /\ writes' = <<Write("local", local_ok)>>
                      \o (IF use_s3 THEN <<Write("s3", s3_ok)>> ELSE <<>>)
        /\ faults' = used + Cost(local_ok) + Cost(s3_ok)

\* cleanup_old_entries keeps the last max_entries ids (1000 in the source;
\* scaled down here) and the records of the ids kept.
max_entries == 2

cleanup_old_entries_keeps_details(st) ==
    IF Len(st.processed_messages) > max_entries
    THEN LET n == Len(st.processed_messages)
         IN  [st EXCEPT
                !.processed_messages = SubSeq(st.processed_messages, n - max_entries + 1, n)]
    ELSE st

cleanup_old_entries_keeps_oldest(st) ==
    IF Len(st.processed_messages) > max_entries
    THEN LET kept    == SubSeq(st.processed_messages, 1, max_entries)
             kept_ts == {kept[k] : k \in 1..Len(kept)}
         IN  [st EXCEPT
                !.processed_messages = kept,
                !.processing_details =
                    [ts \in (DOMAIN st.processing_details) \cap kept_ts |->
                        st.processing_details[ts]]]
    ELSE st

cleanup_old_entries_recounts(st) ==
    IF Len(st.processed_messages) > max_entries
    THEN LET n       == Len(st.processed_messages)
             kept    == SubSeq(st.processed_messages, n - max_entries + 1, n)
             kept_ts == {kept[k] : k \in 1..Len(kept)}
         IN  [st EXCEPT
                !.processed_messages = kept,
                !.total_processed = Len(kept),
                !.processing_details =
                    [ts \in (DOMAIN st.processing_details) \cap kept_ts |->
                        st.processing_details[ts]]]
    ELSE st

cleanup_old_entries(st) ==
    IF Len(st.processed_messages) > max_entries
    THEN LET n       == Len(st.processed_messages)
             kept    == SubSeq(st.processed_messages, n - max_entries + 1, n)
             kept_ts == {kept[k] : k \in 1..Len(kept)}
         IN  [st EXCEPT
                !.processed_messages = kept,
                !.processing_details =
                    [ts \in (DOMAIN st.processing_details) \cap kept_ts |->
                        st.processing_details[ts]]]
    ELSE st

\* mark_processed line 150: the line logged when an id has been added.
Marked(message_ts) == [ts |-> message_ts, msg |-> "Marked as processed"]

log_marked(lg, st, message_ts) ==
    IF is_processed(st, message_ts) THEN lg ELSE Append(lg, Marked(message_ts))

ProcessedIds(st) == {st.processed_messages[k] : k \in 1..Len(st.processed_messages)}

\* --------------------------------------------------------- credit_bot.py
NoParsed == [message_ts |-> 0]

\* No process is running: there is no in-memory state.
NoState == create_empty_state(0)

InitialResult(message_ts) ==
    [success         |-> FALSE,
     message_ts      |-> message_ts,
     credit_amount   |-> None,
     error           |-> None,
     posted_to_slack |-> FALSE,
     urls_processed  |-> <<>>]

ErrorPart(n, msg) == [idx |-> n, msg |-> msg]

Call(op, ts, n, url, ok, amount) ==
    [op |-> op, ts |-> ts, idx |-> n, url |-> url, ok |-> ok, amount |-> amount]

\* config.py line 98: the operator id the configuration holds, and the value
\* of the expression Config.SLACK_USER_ID in credit_bot.py lines 259-260: the
\* attribute is a property read on the class, which yields the property
\* object, not the id.
configured_user_id == "W014QM1DAPN"
SLACK_USER_ID == "property object"

\* send_dm(user_id, text) as a collaborator call.
DmCall(ts, user_id, ok) == Call("dm", ts, 0, "", ok, None) @@ [to |-> user_id]

\* The parsed requests process_message can work on: they carry 'looker_urls',
\* and has_looker_link tells whether the list is non-empty.
ParsedRequests ==
    {[message_ts      |-> t,
      user_id         |-> "U1",
      has_looker_link |-> Len(u) > 0,
      looker_urls     |-> u] : t \in MsgIds, u \in UrlSeqs}

\* 'continue' after a failed reference: the loop goes on with the next one.
continue_after_failure_breaks(n, last) == last + 1

continue_after_failure(n, last) == n + 1

\* total_credit += credit_amount
accumulate_overwrites(total, amount) == amount

accumulate(total, amount) == total + amount

\* Lines 206-209: the result of a message with at least one success.
success_result_needs_post(res, total, post_success, executions) ==
    [res EXCEPT !.success = post_success,
                !.credit_amount = IF post_success THEN Some(total) ELSE None,
                !.error = IF post_success THEN None
                          ELSE <<ErrorPart(0, "Failed to post result")>>,
                !.posted_to_slack = post_success,
                !.urls_processed = executions]

success_result(res, total, post_success, executions) ==
    [res EXCEPT !.success = TRUE,
                !.credit_amount = Some(total),
                !.posted_to_slack = post_success,
                !.urls_processed = executions]

\* Lines 299-303: the metadata run_once records for a result.
metadata_of_drops_error(res) ==
    [success       |-> res.success,
     credit_amount |-> res.credit_amount,
     error         |-> None]

metadata_of(res) ==
    [success       |-> res.success,
     credit_amount |-> res.credit_amount,
     error         |-> res.error]

Init ==
    /\ pc = "idle"
    /\ clock = 0
    /\ channel = <<>>
    /\ use_s3 \in BOOLEAN
    /\ local_file = Absent
    /\ s3_object = Absent
    /\ state = NoState
    /\ access_token = FALSE
    /\ messages = <<>>
    /\ unprocessed = <<>>
    /\ i = 1
    /\ parsed = NoParsed
    /\ result = InitialResult(0)
    /\ idx = 1
    /\ sql_query = None
    /\ is_verify = FALSE
    /\ total_credit = 0
    /\ successful_executions = <<>>
    /\ processing_errors = <<>>
    /\ calls = <<>>
    /\ log = <<>>
    /\ start_processed = {}
    /\ nmarks = 0
    /\ last_call = NoCall
    /\ writes = <<>>
    /\ faults = 0

\* A user or another bot posts a message in the channel (newest first).
UserPosts ==
    /\ pc = "idle"
    /\ Len(channel) < MaxMsgs
    /\ \E message \in Messages :
          /\ message.ts = Len(channel) + 1
          /\ channel' = <<message>> \o channel
    /\ UNCHANGED <<pc, clock, use_s3, last_call, local_file, s3_object, state, access_token,
                   messages, unprocessed, i, parsed, result, idx, sql_query, is_verify, total_credit,
                   successful_executions, processing_errors, calls, log,
                   start_processed, nmarks, writes, faults>>

\* main(): CreditBot() builds the StateManager, which loads the snapshot;
\* initialize() tests the connections and authenticates with Looker.  When
\* initialize() fails main returns 1 without calling run_once.
StartRun ==
    /\ pc = "idle"
    /\ clock < MaxRuns
    /\ clock' = clock + 1
    /\ \E s3_read_ok \in S3ReadChoices(faults) :
       \E mirror_ok \in MirrorChoices(s3_read_ok, faults + Cost(s3_read_ok)) :
       \E init_ok \in MayFail(faults + Cost(s3_read_ok) + Cost(mirror_ok)) :
          LET content == IF s3_read_ok THEN s3_object ELSE Absent
              loaded  == load_state(content, mirror_ok, clock')
          IN  /\ local_file' = loaded.local
              /\ writes' = loaded.writes
              /\ access_token' = init_ok
              /\ faults' = faults + Cost(s3_read_ok) + Cost(mirror_ok) + Cost(init_ok)
              /\ IF init_ok
                 THEN /\ state' = loaded.state
                      /\ start_processed' = ProcessedIds(loaded.state)
                      /\ pc' = "initialized"
                 ELSE /\ state' = NoState
                      /\ start_processed' = {}
                      /\ pc' = "idle"
    /\ calls' = <<>>
    /\ log' = <<>>
    /\ messages' = <<>>
    /\ unprocessed' = <<>>
    /\ i' = 1
    /\ parsed' = NoParsed
    /\ UNCHANGED <<channel, use_s3, last_call, s3_object, result, idx, sql_query, is_verify, total_credit,
                   successful_executions, processing_errors, nmarks>>

\* run_once lines 273-284: fetch, filter, and the early return when nothing
\* is unprocessed.  get_recent_messages returns [] on a SlackApiError.
RunOnceFetch_raises ==
    /\ pc = "initialized"
    /\ \E fetch_ok \in MayFail(faults) :
          LET msgs == IF fetch_ok THEN channel ELSE <<>>
              unp  == get_unprocessed_messages(state, msgs)
          IN  /\ messages' = msgs
              /\ unprocessed' = unp
              /\ i' = 1
              /\ IF ~fetch_ok
                 THEN /\ pc' = "raised"
                      /\ faults' = faults + 1
                      /\ UNCHANGED <<state, local_file, s3_object, writes>>
                 ELSE IF unp = <<>>
                 THEN /\ state' = update_last_check(state, clock)
                      /\ save_state(state', faults)
                      /\ pc' = "returned"
                 ELSE /\ pc' = "loop"
                      /\ UNCHANGED <<state, local_file, s3_object, writes, faults>>
    /\ UNCHANGED <<clock, channel, use_s3, last_call, access_token, parsed, result, idx, sql_query, is_verify,
                   total_credit, successful_executions, processing_errors,
                   calls, log, start_processed, nmarks>>

RunOnceFetch ==
    /\ pc = "initialized"
    /\ \E fetch_ok \in MayFail(faults) :
          LET msgs == IF fetch_ok THEN channel ELSE <<>>
              unp  == get_unprocessed_messages(state, msgs)
          IN  /\ messages' = msgs
              /\ unprocessed' = unp
              /\ i' = 1
              /\ IF unp = <<>>
                 THEN /\ state' = update_last_check(state, clock)
                      /\ save_state(state', faults + Cost(fetch_ok))
                      /\ pc' = "returned"
                 ELSE /\ pc' = "loop"
                      /\ faults' = faults + Cost(fetch_ok)
                      /\ UNCHANGED <<state, local_file, s3_object, writes>>
    /\ UNCHANGED <<clock, channel, use_s3, last_call, access_token, parsed, result, idx, sql_query, is_verify,
                   total_credit, successful_executions, processing_errors,
                   calls, log, start_processed, nmarks>>

\* run_once lines 287-291: parse the next unprocessed message; a bot
\* message parses to None and is skipped.
LoopParse_from_end ==
    /\ pc = "loop"
    /\ i <= Len(unprocessed)
    /\ LET message == unprocessed[Len(unprocessed) - i + 1]
       IN  IF is_bot_message(message)
           THEN /\ i' = i + 1
                /\ UNCHANGED <<pc, parsed>>
           ELSE /\ parsed' = parse_credit_request(message)
                /\ pc' = "call_pm"
                /\ UNCHANGED i
    /\ UNCHANGED <<clock, channel, use_s3, last_call, local_file, s3_object, state,
                   access_token, messages, unprocessed, result, idx, sql_query, is_verify, total_credit,
                   successful_executions, processing_errors, calls, log,
                   start_processed, nmarks, writes, faults>>

LoopParse ==
    /\ pc = "loop"
    /\ i <= Len(unprocessed)
    /\ IF is_bot_message(unprocessed[i])
       THEN /\ i' = i + 1
            /\ UNCHANGED <<pc, parsed>>
       ELSE /\ parsed' = parse_credit_request(unprocessed[i])
            /\ pc' = "call_pm"
            /\ UNCHANGED i
    /\ UNCHANGED <<clock, channel, use_s3, last_call, local_file, s3_object, state,
                   access_token, messages, unprocessed, result, idx, sql_query, is_verify, total_credit,
                   successful_executions, processing_errors, calls, log,
                   start_processed, nmarks, writes, faults>>

\* process_message lines 99-135.  Reading parsed_request['looker_urls']
\* raises KeyError when the key is missing; a request without a Looker link
\* gets the clarification reply and returns; otherwise the loop starts.
PMEnter ==
    /\ pc = "call_pm"
    /\ IF "looker_urls" \notin DOMAIN parsed
       THEN /\ pc' = "raised"
            /\ UNCHANGED <<result, idx, sql_query, is_verify, total_credit, successful_executions,
                           processing_errors, calls, log>>
       ELSE IF ~parsed.has_looker_link
       THEN /\ \E ok \in BOOLEAN :
                  calls' = Append(calls, Call("reply", parsed.message_ts, 0, "", ok, None))
            /\ result' = [InitialResult(parsed.message_ts) EXCEPT
                            !.error = <<ErrorPart(0, "No Looker link found")>>,
                            !.posted_to_slack = TRUE]
            /\ pc' = "pm_returned"
            /\ UNCHANGED <<idx, sql_query, is_verify, total_credit, successful_executions,
                           processing_errors, log>>
       ELSE /\ result' = InitialResult(parsed.message_ts)
            /\ idx' = 1
            /\ total_credit' = 0
            /\ successful_executions' = <<>>
            /\ processing_errors' = <<>>
            /\ pc' = "pm_loop"
            /\ UNCHANGED <<sql_query, is_verify, calls, log>>
    /\ UNCHANGED <<clock, channel, use_s3, last_call, local_file, s3_object, state,
                   access_token, messages, unprocessed, i, parsed,
                   start_processed, nmarks, writes, faults>>

\* run_once lines 306-307: after the loop, update_last_check and return.
LoopDone ==
    /\ pc = "loop"
    /\ i > Len(unprocessed)
    /\ state' = update_last_check(state, clock)
    /\ save_state(state', faults)
    /\ pc' = "returned"
    /\ UNCHANGED <<clock, channel, use_s3, last_call, access_token, messages, unprocessed, i,
                   parsed, result, idx, sql_query, is_verify, total_credit, successful_executions,
                   processing_errors, calls, log, start_processed, nmarks>>

\* main() lines 336-345: run_once returned (exit 0) or raised (exit 1);
\* the process ends and the scheduler may start the next invocation.
Exit ==
    /\ pc \in {"returned", "raised"}
    /\ pc' = "idle"
    /\ state' = NoState
    /\ access_token' = FALSE
    /\ messages' = <<>>
    /\ unprocessed' = <<>>
    /\ i' = 1
    /\ parsed' = NoParsed
    /\ result' = InitialResult(0)
    /\ idx' = 1
    /\ sql_query' = None
    /\ is_verify' = FALSE
    /\ total_credit' = 0
    /\ successful_executions' = <<>>
    /\ processing_errors' = <<>>
    /\ calls' = <<>>
    /\ log' = <<>>
    /\ start_processed' = {}
    /\ writes' = <<>>
    /\ UNCHANGED <<clock, channel, use_s3, last_call, local_file, s3_object, nmarks, faults>>

\* A direct use of the state manager between invocations (as the module's
\* own __main__ does): load, mark_processed(id, metadata), save.
MarkProcessedCall ==
    /\ pc = "idle"
    /\ nmarks < MaxMarks
    /\ nmarks' = nmarks + 1
    /\ \E id \in MsgIds :
       \E s3_read_ok \in S3ReadChoices(faults) :
       \E mirror_ok \in MirrorChoices(s3_read_ok, faults + Cost(s3_read_ok)) :
          LET content == IF s3_read_ok THEN s3_object ELSE Absent
              loaded  == load_state(content, mirror_ok, clock)
              meta    == Some([success |-> FALSE, credit_amount |-> None,
                               error |-> <<ErrorPart(0, "manual")>>])
          IN  /\ ~is_processed(loaded.state, id)
              /\ save_state(mark_processed(loaded.state, id, meta, clock),
                            faults + Cost(s3_read_ok) + Cost(mirror_ok))
              /\ log' = log_marked(log, loaded.state, id)
    /\ UNCHANGED <<pc, clock, channel, use_s3, last_call, state, access_token, messages,
                   unprocessed, i, parsed, result, idx, sql_query, is_verify, total_credit,
                   successful_executions, processing_errors, calls,
                   start_processed>>

Next ==
    \/ UserPosts
    \/ StartRun
    \/ RunOnceFetch
    \/ LoopParse
    \/ PMEnter
    \/ LoopDone
    \/ Exit
    \/ MarkProcessedCall

Spec == Init /\ [][Next]_vars

\* A caller hands a parsed request for a message not yet processed to
\* process_message (SpecPM; one call in a behaviour).
PMCall ==
    /\ pc = "idle"
    /\ \E p \in ParsedRequests :
          /\ ~is_processed(state, p.message_ts)
          /\ parsed' = p
    /\ pc' = "call_pm"
    /\ UNCHANGED <<clock, channel, use_s3, last_call, local_file, s3_object, state,
                   access_token, messages, unprocessed, i, result, idx, sql_query, is_verify,
                   total_credit, successful_executions, processing_errors,
                   calls, log, start_processed, nmarks, writes, faults>>

\* process_message lines 137-184: one iteration of the loop over looker_urls.
\* access_token is set whenever the loop runs, so _get_headers does not raise.
PMIteration ==
    /\ pc = "pm_loop"
    /\ idx <= Len(parsed.looker_urls)
    /\ LET ts   == parsed.message_ts
           url  == parsed.looker_urls[idx]
           last == Len(parsed.looker_urls)
       IN \E sql \in SqlResults :
          LET c1 == Append(calls, Call("resolve", ts, idx, url, sql # None, None))
          IN
          /\ sql_query' = sql
          /\ is_verify' = IF sql = None THEN is_verify ELSE is_verify_query(sql[1])
          /\ IF sql = None
             THEN /\ processing_errors' =
                       Append(processing_errors, ErrorPart(idx, "Failed to extract SQL"))
                  /\ log' = Append(log, ErrorPart(idx, "Failed to extract SQL"))
                  /\ calls' = c1
                  /\ idx' = continue_after_failure(idx, last)
                  /\ UNCHANGED <<pc, total_credit, successful_executions>>
             ELSE IF ~is_verify'
             THEN /\ calls' = c1
                  /\ idx' = idx + 1
                  /\ UNCHANGED <<pc, total_credit, successful_executions,
                                 processing_errors, log>>
             ELSE \E exec_result \in ExecResults :
                  LET c2 == Append(c1, Call("execute", ts, idx, url, exec_result.success,
                                            exec_result.credit_amount))
                  IN
                  /\ calls' = c2
                  /\ IF ~exec_result.success
                     THEN /\ processing_errors' =
                               Append(processing_errors,
                                      ErrorPart(idx, "Notebook execution failed"))
                          /\ log' = Append(log, ErrorPart(idx, "Notebook execution failed"))
                          /\ idx' = continue_after_failure(idx, last)
                          /\ UNCHANGED <<pc, total_credit, successful_executions>>
                     ELSE IF exec_result.credit_amount = None
                     \* line 177: formatting None with :.2f raises TypeError
                     THEN /\ pc' = "raised"
                          /\ UNCHANGED <<idx, total_credit, successful_executions,
                                         processing_errors, log>>
                     ELSE /\ total_credit' =
                               accumulate(total_credit, exec_result.credit_amount[1])
                          /\ successful_executions' =
                               Append(successful_executions,
                                      [url |-> url, amount |-> exec_result.credit_amount[1]])
                          /\ idx' = idx + 1
                          /\ UNCHANGED <<pc, processing_errors, log>>
    /\ UNCHANGED <<clock, channel, use_s3, last_call, local_file, s3_object, state,
                   access_token, messages, unprocessed, i, parsed, result,
                   start_processed, nmarks, writes, faults>>

\* process_message line 187: the reasons collected, joined in order, or the
\* general message when none was collected.
error_summary_generic(errors) ==
    <<ErrorPart(0, "No Verify queries found or all processing failed")>>

error_summary(errors) ==
    IF errors # <<>> THEN errors
    ELSE <<ErrorPart(0, "No Verify queries found or all processing failed")>>

\* process_message lines 186-212: no success: error summary, operator DM
\* (_handle_error; Config.SLACK_USER_ID is always truthy), return; otherwise
\* the consolidated reply (_post_result) and the success result.
PMFinish ==
    /\ pc = "pm_loop"
    /\ idx > Len(parsed.looker_urls)
    /\ IF successful_executions = <<>>
       THEN /\ log' = Append(log, ErrorPart(0, "No successful executions"))
            /\ result' = [result EXCEPT !.error = error_summary(processing_errors)]
            /\ \E ok \in BOOLEAN :
                  calls' = Append(calls, DmCall(parsed.message_ts, SLACK_USER_ID, ok))
       ELSE /\ \E post_success \in BOOLEAN :
                  /\ calls' = Append(calls, Call("reply", parsed.message_ts, 0, "",
                                                 post_success, Some(total_credit)))
                  /\ result' = success_result(result, total_credit, post_success,
                                              successful_executions)
            /\ UNCHANGED log
    /\ pc' = "pm_returned"
    /\ UNCHANGED <<clock, channel, use_s3, last_call, local_file, s3_object, state,
                   access_token, messages, unprocessed, i, parsed, idx, sql_query, is_verify, total_credit,
                   successful_executions, processing_errors, start_processed,
                   nmarks, writes, faults>>

\* run_once lines 296-304: the message is marked processed with the
\* metadata of the result, and the snapshot is saved.
RecordResult_without_save ==
    /\ pc = "pm_returned"
    /\ state' = mark_processed(state, parsed.message_ts, Some(metadata_of(result)), clock)
    /\ writes' = <<>>
    /\ log' = log_marked(log, state, parsed.message_ts)
    /\ pc' = "recorded"
    /\ UNCHANGED <<clock, channel, use_s3, last_call, local_file, s3_object, faults,
                   access_token, messages, unprocessed, i, parsed, result, idx,
                   sql_query, is_verify, total_credit, successful_executions,
                   processing_errors, calls, start_processed, nmarks>>

RecordResult ==
    /\ pc = "pm_returned"
    /\ state' = mark_processed(state, parsed.message_ts, Some(metadata_of(result)), clock)
    /\ IF is_processed(state, parsed.message_ts)
       THEN /\ writes' = <<>>
            /\ UNCHANGED <<local_file, s3_object, faults>>
       ELSE save_state(state', faults)
    /\ log' = log_marked(log, state, parsed.message_ts)
    /\ pc' = "recorded"
    /\ UNCHANGED <<clock, channel, use_s3, last_call, access_token, messages, unprocessed, i,
                   parsed, result, idx, sql_query, is_verify, total_credit, successful_executions,
                   processing_errors, calls, start_processed, nmarks>>

\* The bot after a successful initialize(), with an empty store.
InitPM ==
    /\ pc = "idle"
    /\ clock = 0
    /\ channel = <<>>
    /\ use_s3 \in BOOLEAN
    /\ local_file = Absent
    /\ s3_object = Absent
    /\ state = create_empty_state(0)
    /\ access_token = TRUE
    /\ messages = <<>>
    /\ unprocessed = <<>>
    /\ i = 1
    /\ parsed = NoParsed
    /\ result = InitialResult(0)
    /\ idx = 1
    /\ sql_query = None
    /\ is_verify = FALSE
    /\ total_credit = 0
    /\ successful_executions = <<>>
    /\ processing_errors = <<>>
    /\ calls = <<>>
    /\ log = <<>>
    /\ start_processed = {}
    /\ nmarks = 0
    /\ last_call = NoCall
    /\ writes = <<>>
    /\ faults = 0

NextPM ==
    \/ PMCall
    \/ PMEnter
    \/ PMIteration
    \/ PMFinish
    \/ RecordResult

SpecPM == InitPM /\ [][NextPM]_vars

\* ------------------------------------------ the loop of run_once on its own
\* The lists run_once can find unprocessed: the channel's messages, newest
\* first, none of them processed before.
UnprocessedLists ==
    {u \in SeqsUpTo(Messages, MaxMsgs) :
        \A k \in 1..Len(u) : u[k].ts = Len(u) - k + 1}

\* The results process_message returns (lines 128, 192, 212): the request
\* for a link, a failure with its error summary, a success with its total.
ReturnedResults(ts) ==
    {[InitialResult(ts) EXCEPT !.error = <<ErrorPart(0, "No Looker link found")>>,
                               !.posted_to_slack = TRUE],
     [InitialResult(ts) EXCEPT !.error = <<ErrorPart(1, "Failed to extract SQL")>>],
     success_result(InitialResult(ts), 1000, TRUE,
                    <<[url |-> "looker/1", amount |-> 1000]>>)}

\* The calls process_message has made when it returns result r: the request
\* for a link (line 122); the failed resolve and the operator message
\* (lines 145, 190); the resolve, the execution and the reply (lines 145,
\* 166, 199).
calls_of_result(r, posted) ==
    IF r.success
    THEN <<Call("resolve", r.message_ts, 1, "looker/1", TRUE, None),
           Call("execute", r.message_ts, 1, "looker/1", TRUE, r.credit_amount),
           Call("reply", r.message_ts, 0, "", posted, r.credit_amount)>>
    ELSE IF r.posted_to_slack
    THEN <<Call("reply", r.message_ts, 0, "", posted, None)>>
    ELSE <<Call("resolve", r.message_ts, 1, "looker/1", FALSE, None),
           DmCall(r.message_ts, SLACK_USER_ID, posted)>>

\* run_once line 294, with process_message taken as a whole: it returns one
\* of its results, having made the calls that lead to it, or raises.
PMReturns ==
    /\ pc = "call_pm"
    /\ \/ /\ \E r \in ReturnedResults(parsed.message_ts) :
                /\ result' = r
                /\ calls' = calls \o calls_of_result(r, r.success => r.posted_to_slack)
          /\ pc' = "pm_returned"
       \/ /\ pc' = "raised"
          /\ UNCHANGED <<result, calls>>
    /\ UNCHANGED <<clock, channel, use_s3, last_call, local_file, s3_object, state,
                   access_token, messages, unprocessed, i, parsed, idx, sql_query,
                   is_verify, total_credit, successful_executions,
                   processing_errors, log, start_processed, nmarks,
                   writes, faults>>

\* run_once line 287: the loop goes on with the next unprocessed message.
LoopNext_stays ==
    /\ pc = "recorded"
    /\ pc' = "loop"
    /\ UNCHANGED <<clock, channel, use_s3, last_call, local_file, s3_object, state,
                   access_token, messages, unprocessed, i, parsed, result, idx,
                   sql_query, is_verify, total_credit, successful_executions,
                   processing_errors, calls, log, start_processed, nmarks,
                   writes, faults>>

LoopNext ==
    /\ pc = "recorded"
    /\ pc' = "loop"
    /\ i' = i + 1
    /\ UNCHANGED <<clock, channel, use_s3, last_call, local_file, s3_object, state,
                   access_token, messages, unprocessed, parsed, result, idx,
                   sql_query, is_verify, total_credit, successful_executions,
                   processing_errors, calls, log, start_processed, nmarks,
                   writes, faults>>

\* The bot inside run_once after the fetch and the filter (lines 273-279),
\* started on an empty store.
InitLoop ==
    /\ pc = "loop"
    /\ clock = 1
    /\ channel \in UnprocessedLists
    /\ use_s3 \in BOOLEAN
    /\ local_file = Absent
    /\ s3_object = Absent
    /\ state = create_empty_state(1)
    /\ access_token = TRUE
    /\ messages = channel
    /\ unprocessed = channel
    /\ i = 1
    /\ parsed = NoParsed
    /\ result = InitialResult(0)
    /\ idx = 1
    /\ sql_query = None
    /\ is_verify = FALSE
    /\ total_credit = 0
    /\ successful_executions = <<>>
    /\ processing_errors = <<>>
    /\ calls = <<>>
    /\ log = <<>>
    /\ start_processed = {}
    /\ nmarks = 0
    /\ last_call = NoCall
    /\ writes = <<>>
    /\ faults = 0

NextLoop ==
    \/ LoopParse
    \/ PMReturns
    \/ RecordResult
    \/ LoopNext
    \/ LoopDone

SpecLoop == InitLoop /\ [][NextLoop]_vars

\* run_once is one sequential thread: whenever it has a next step it takes
\* it (every collaborator call returns).
SpecLoopFair == SpecLoop /\ WF_vars(NextLoop)

\* ------------------------------- the loop of run_once on a list with repeats
\* Fetched lists in which a message occurs twice.
RepeatingLists ==
    {u \in SeqsUpTo(Messages, MaxMsgs) :
        \E a, b \in 1..Len(u) : a < b /\ u[a] = u[b]}

\* The bot inside run_once after the fetch and the filter (lines 273-279),
\* started on an empty store: nothing is processed yet, so the filter kept
\* the whole list.
InitRepeat ==
    /\ pc = "loop"
    /\ clock = 1
    /\ channel \in RepeatingLists
    /\ use_s3 \in BOOLEAN
    /\ local_file = Absent
    /\ s3_object = Absent
    /\ state = create_empty_state(1)
    /\ access_token = TRUE
    /\ messages = channel
    /\ unprocessed = get_unprocessed_messages(state, channel)
    /\ i = 1
    /\ parsed = NoParsed
    /\ result = InitialResult(0)
    /\ idx = 1
    /\ sql_query = None
    /\ is_verify = FALSE
    /\ total_credit = 0
    /\ successful_executions = <<>>
    /\ processing_errors = <<>>
    /\ calls = <<>>
    /\ log = <<>>
    /\ start_processed = {}
    /\ nmarks = 0
    /\ last_call = NoCall
    /\ writes = <<>>
    /\ faults = 0

SpecRepeat == InitRepeat /\ [][NextLoop]_vars

\* --------------------------------------------- the link extraction on its own
\* The texts a message can have: up to MaxRefs links, in any order.
LinkTexts == SeqsUpTo(Links, MaxRefs)

\* extract_looker_urls(text) called on the text of the message, lines 100-128.
ExtractCall ==
    /\ pc = "idle"
    /\ last_call' = [op |-> "extract_looker_urls", text |-> channel[1].text,
                     returned |-> extract_looker_urls(channel[1].text)]
    /\ pc' = "extracted"
    /\ UNCHANGED <<clock, channel, use_s3, local_file, s3_object, state, access_token,
                   messages, unprocessed, i, parsed, result, idx, sql_query,
                   is_verify, total_credit, successful_executions,
                   processing_errors, calls, log, start_processed, nmarks,
                   writes, faults>>

\* parse_credit_request(message), lines 182-224, on the same message.
ParseCall ==
    /\ pc = "extracted"
    /\ parsed' = parse_credit_request(channel[1])
    /\ pc' = "parsed"
    /\ UNCHANGED <<clock, channel, use_s3, last_call, local_file, s3_object, state,
                   access_token, messages, unprocessed, i, result, idx, sql_query,
                   is_verify, total_credit, successful_executions,
                   processing_errors, calls, log, start_processed, nmarks,
                   writes, faults>>

\* One user message with any of the texts.
InitParse ==
    /\ pc = "idle"
    /\ clock = 0
    /\ channel \in {<<[ts |-> 1, bot |-> FALSE, text |-> x]>> : x \in LinkTexts}
    /\ use_s3 = FALSE
    /\ local_file = Absent
    /\ s3_object = Absent
    /\ state = NoState
    /\ access_token = FALSE
    /\ messages = <<>>
    /\ unprocessed = <<>>
    /\ i = 1
    /\ parsed = NoParsed
    /\ result = InitialResult(0)
    /\ idx = 1
    /\ sql_query = None
    /\ is_verify = FALSE
    /\ total_credit = 0
    /\ successful_executions = <<>>
    /\ processing_errors = <<>>
    /\ calls = <<>>
    /\ log = <<>>
    /\ start_processed = {}
    /\ nmarks = 0
    /\ last_call = NoCall
    /\ writes = <<>>
    /\ faults = 0

NextParse ==
    \/ ExtractCall
    \/ ParseCall

SpecParse == InitParse /\ [][NextParse]_vars

\* ------------------------------------------- the state manager on its own
\* The metadata a caller passes to mark_processed: none, or an outcome.
Metadatas ==
    {None,
     Some([success |-> TRUE, credit_amount |-> Some(1000), error |-> None])}

\* The ids a caller passes to mark_processed: enough to exceed max_entries.
MarkedIds == 1..(max_entries + 1)

\* StateManager(): the constructor loads the snapshot (lines 20-32).
SMConstruct ==
    /\ pc = "idle"
    /\ clock < MaxClock
    /\ clock' = clock + 1
    /\ \E s3_read_ok \in S3ReadChoices(faults) :
       \E mirror_ok \in MirrorChoices(s3_read_ok, faults + Cost(s3_read_ok)) :
          LET content == IF s3_read_ok THEN s3_object ELSE Absent
              loaded  == load_state(content, mirror_ok, clock')
          IN  /\ state' = loaded.state
              /\ local_file' = loaded.local
              /\ writes' = loaded.writes
              /\ faults' = faults + Cost(s3_read_ok) + Cost(mirror_ok)
              /\ last_call' = [op |-> "load", s3_read_ok |-> s3_read_ok]
              /\ pc' = IF has_fields(loaded.state) THEN "sm_ready" ELSE "sm_malformed"
    /\ UNCHANGED <<channel, use_s3, s3_object, access_token, messages, unprocessed,
                   i, parsed, result, idx, sql_query, is_verify, total_credit,
                   successful_executions, processing_errors, calls, log,
                   start_processed, nmarks>>

\* mark_processed(message_ts, metadata), lines 128-150.
SMMarkProcessed ==
    /\ pc = "sm_ready"
    /\ clock < MaxClock
    /\ clock' = clock + 1
    /\ \E id \in MarkedIds, metadata \in Metadatas :
          /\ state' = mark_processed(state, id, metadata, clock')
          /\ last_call' = [op |-> "mark_processed", id |-> id, metadata |-> metadata,
                           mutating |-> ~is_processed(state, id)]
          /\ IF is_processed(state, id)
             THEN /\ writes' = <<>>
                  /\ UNCHANGED <<local_file, s3_object, faults>>
             ELSE save_state(state', faults)
          /\ log' = log_marked(log, state, id)
    /\ UNCHANGED <<pc, channel, use_s3, access_token, messages, unprocessed,
                   i, parsed, result, idx, sql_query, is_verify, total_credit,
                   successful_executions, processing_errors, calls,
                   start_processed, nmarks>>

\* update_last_check(), lines 152-155.
SMUpdateLastCheck ==
    /\ pc = "sm_ready"
    /\ clock < MaxClock
    /\ clock' = clock + 1
    /\ state' = update_last_check(state, clock')
    /\ save_state(state', faults)
    /\ last_call' = [op |-> "update_last_check", mutating |-> TRUE]
    /\ UNCHANGED <<pc, channel, use_s3, access_token, messages, unprocessed,
                   i, parsed, result, idx, sql_query, is_verify, total_credit,
                   successful_executions, processing_errors, calls, log,
                   start_processed, nmarks>>

\* cleanup_old_entries(), lines 189-212.
SMCleanupOldEntries ==
    /\ pc = "sm_ready"
    /\ clock < MaxClock
    /\ clock' = clock + 1
    /\ state' = cleanup_old_entries(state)
    /\ last_call' = [op |-> "cleanup_old_entries",
                     mutating |-> Len(state.processed_messages) > max_entries]
    /\ IF Len(state.processed_messages) > max_entries
       THEN save_state(state', faults)
       ELSE /\ writes' = <<>>
            /\ UNCHANGED <<local_file, s3_object, faults>>
    /\ UNCHANGED <<pc, channel, use_s3, access_token, messages, unprocessed,
                   i, parsed, result, idx, sql_query, is_verify, total_credit,
                   successful_executions, processing_errors, calls, log,
                   start_processed, nmarks>>

\* A stored snapshot is damaged while no process runs: the file is truncated
\* or replaced by other content.
StoreDamaged ==
    /\ pc = "idle"
    /\ faults < MaxFaults
    /\ faults' = faults + 1
    /\ \E damaged \in {Invalid, Fieldless} :
          \/ local_file' = damaged /\ UNCHANGED s3_object
          \/ use_s3 /\ s3_object' = damaged /\ UNCHANGED local_file
    /\ UNCHANGED <<pc, clock, channel, use_s3, state, access_token, messages,
                   unprocessed, i, parsed, result, idx, sql_query, is_verify,
                   total_credit, successful_executions, processing_errors,
                   calls, log, start_processed, nmarks, last_call, writes>>

\* is_processed (line 126), and with it mark_processed and
\* get_unprocessed_messages, on a state without 'processed_messages': the
\* subscript raises KeyError.
SMCallOnMalformed ==
    /\ pc = "sm_malformed"
    /\ clock < MaxClock
    /\ clock' = clock + 1
    /\ \E id \in MarkedIds : last_call' = [op |-> "is_processed", id |-> id]
    /\ pc' = "raised"
    /\ UNCHANGED <<channel, use_s3, local_file, s3_object, state, access_token,
                   messages, unprocessed, i, parsed, result, idx, sql_query,
                   is_verify, total_credit, successful_executions,
                   processing_errors, calls, log, start_processed, nmarks,
                   writes, faults>>

\* The process that holds the StateManager ends; the stores remain.
SMExit ==
    /\ pc \in {"sm_ready", "sm_malformed", "raised"}
    /\ pc' = "idle"
    /\ state' = NoState
    /\ UNCHANGED <<clock, channel, use_s3, local_file, s3_object, access_token,
                   messages, unprocessed, i, parsed, result, idx, sql_query,
                   is_verify, total_credit, successful_executions,
                   processing_errors, calls, log, start_processed, nmarks,
                   last_call, writes, faults>>

\* Both stores empty and no process running.
InitSM ==
    /\ pc = "idle"
    /\ clock = 0
    /\ channel = <<>>
    /\ use_s3 \in BOOLEAN
    /\ local_file = Absent
    /\ s3_object = Absent
    /\ state = NoState
    /\ access_token = FALSE
    /\ messages = <<>>
    /\ unprocessed = <<>>
    /\ i = 1
    /\ parsed = NoParsed
    /\ result = InitialResult(0)
    /\ idx = 1
    /\ sql_query = None
    /\ is_verify = FALSE
    /\ total_credit = 0
    /\ successful_executions = <<>>
    /\ processing_errors = <<>>
    /\ calls = <<>>
    /\ log = <<>>
    /\ start_processed = {}
    /\ nmarks = 0
    /\ last_call = NoCall
    /\ writes = <<>>
    /\ faults = 0

NextSM ==
    \/ StoreDamaged
    \/ SMCallOnMalformed
    \/ SMConstruct
    \/ SMMarkProcessed
    \/ SMUpdateLastCheck
    \/ SMCleanupOldEntries
    \/ SMExit

SpecSM == InitSM /\ [][NextSM]_vars

\* ------------------------------------------------------------ properties
RunEnded == pc \in {"returned", "raised"}

FetchedIds == {messages[k].ts : k \in 1..Len(messages)}

\* Ids this invocation handles or has handled: the unprocessed list it
\* iterates, the request in process_message, the calls made.
UnprocessedIds == {unprocessed[k].ts : k \in 1..Len(unprocessed)}
CalledIds == {calls[k].ts : k \in 1..Len(calls)}

Occurrences(seq, x) == Cardinality({k \in 1..Len(seq) : seq[k] = x})

\* Fetched messages that are not bot messages and were not processed when
\* the invocation loaded the snapshot.
DueMessages ==
    {k \in 1..Len(messages) :
        ~messages[k].bot /\ messages[k].ts \notin start_processed}

Recorded(ts) == is_processed(state, ts) /\ ts \in DOMAIN state.processing_details

CallsOf(op, ts) == SelectSeq(calls, LAMBDA c : c.op = op /\ c.ts = ts)

InPM == "looker_urls" \in DOMAIN parsed /\ parsed.has_looker_link

ResolveCalls == SelectSeq(calls, LAMBDA c : c.op = "resolve")
ExecuteCalls == SelectSeq(calls, LAMBDA c : c.op = "execute")
\* References that produced an amount / that failed, in call order.
SuccessCalls == SelectSeq(calls, LAMBDA c : c.op = "execute" /\ c.ok /\ c.amount # None)
FailedCalls == SelectSeq(calls, LAMBDA c : c.op \in {"resolve", "execute"} /\ ~c.ok)
DmCalls == SelectSeq(calls, LAMBDA c : c.op = "dm")
ReplyCalls == SelectSeq(calls, LAMBDA c : c.op = "reply")

RECURSIVE SumAmounts(_)
SumAmounts(cs) ==
    IF cs = <<>> THEN 0 ELSE cs[1].amount[1] + SumAmounts(Tail(cs))

ReasonOf(c) ==
    ErrorPart(c.idx, IF c.op = "resolve" THEN "Failed to extract SQL"
                     ELSE "Notebook execution failed")

\* C1: an id that is in the processed set when the invocation starts is not
\* handled by it: it is filtered out of the unprocessed list, it is never
\* handed to process_message, no resolve, execute, reply or direct-message
\* call is made for it, and it stays in the processed list exactly once.
C1_ProcessedNotRevisited ==
    pc \in {"loop", "call_pm", "returned", "raised"} =>
        \A id \in start_processed :
            /\ id \notin UnprocessedIds
            /\ (pc = "call_pm" => parsed.message_ts # id)
            /\ id \notin CalledIds
            /\ Occurrences(state.processed_messages, id) = 1

\* A run has handled a fetched list that contains an already processed id
\* next to a message that was due.
C1_Witness ==
    /\ pc = "raised"
    /\ \E id \in start_processed : id \in FetchedIds
    /\ Len(messages) > Len(unprocessed)

\* C3 (as claimed): when run_once has ended, every fetched message that was
\* unprocessed at the start and is not a bot message is in the processed
\* set with outcome metadata.
C3_EveryMessageRecorded ==
    RunEnded => \A k \in DueMessages : Recorded(messages[k].ts)

\* C4 (as claimed): run_once never raises.
C4_RunOnceNeverRaises == pc # "raised"

\* C10 (as claimed): when run_once has ended, every due message without a
\* Looker link has exactly one reply in its thread, no resolve, execute or
\* direct-message call, and is recorded with success = false and the error
\* 'No Looker link found'.
C10_NoLinkClarifiedAndRecorded ==
    RunEnded =>
        \A k \in DueMessages :
            extract_looker_urls(messages[k].text) = <<>> =>
                LET ts == messages[k].ts
                IN  /\ Len(CallsOf("reply", ts)) = 1
                    /\ CallsOf("resolve", ts) = <<>>
                    /\ CallsOf("execute", ts) = <<>>
                    /\ CallsOf("dm", ts) = <<>>
                    /\ Recorded(ts)
                    /\ state.processing_details[ts].success = FALSE
                    /\ state.processing_details[ts].error =
                           <<ErrorPart(0, "No Looker link found")>>

\* C5: when process_message returns for a request in which at least one
\* reference produced an amount, the result is a success, credit_amount is
\* the sum of the amounts of exactly those references, and urls_processed
\* lists exactly those references, each once, in list order.
C5_SumOfSuccessfulReferences ==
    (pc = "pm_returned" /\ InPM /\ SuccessCalls # <<>>) =>
        /\ result.success
        /\ result.credit_amount = Some(SumAmounts(SuccessCalls))
        /\ Len(result.urls_processed) = Len(SuccessCalls)
        /\ \A k \in 1..Len(SuccessCalls) :
              /\ result.urls_processed[k].url = parsed.looker_urls[SuccessCalls[k].idx]
              /\ result.urls_processed[k].amount = SuccessCalls[k].amount[1]
              /\ \A j \in 1..(k - 1) : SuccessCalls[j].idx < SuccessCalls[k].idx

\* Amounts [10.00, fail, 25.50] gave the total 35.50 with two references.
C5_Witness ==
    /\ pc = "pm_returned"
    /\ InPM
    /\ Len(parsed.looker_urls) = 3
    /\ Len(ExecuteCalls) = 3
    /\ ExecuteCalls[1].amount = Some(1000)
    /\ ~ExecuteCalls[2].ok
    /\ ExecuteCalls[3].amount = Some(2550)
    /\ result.credit_amount = Some(3550)
    /\ Len(result.urls_processed) = 2

\* C6: in process_message a failed reference (SQL not resolved, or notebook
\* execution reporting failure) adds one reason to the error list and the
\* loop goes on: the references handled so far have been resolved exactly
\* once each, in list order, and at the return every reference has been.
C6_FailureDoesNotStopLoop ==
    (pc \in {"pm_loop", "pm_returned"} /\ InPM) =>
        /\ Len(ResolveCalls) = idx - 1
        /\ (pc = "pm_returned" => Len(ResolveCalls) = Len(parsed.looker_urls))
        /\ \A k \in 1..Len(ResolveCalls) :
              /\ ResolveCalls[k].idx = k
              /\ ResolveCalls[k].url = parsed.looker_urls[k]
        /\ Len(processing_errors) = Len(FailedCalls)
        /\ \A k \in 1..Len(FailedCalls) : processing_errors[k] = ReasonOf(FailedCalls[k])

\* The first reference could not be resolved, the second failed in the
\* notebook, and the third was still resolved.
C6_Witness ==
    /\ pc = "pm_returned"
    /\ InPM
    /\ Len(parsed.looker_urls) = 3
    /\ Len(ResolveCalls) = 3
    /\ ~ResolveCalls[1].ok
    /\ Len(ExecuteCalls) >= 1
    /\ ExecuteCalls[1].idx = 2
    /\ ~ExecuteCalls[1].ok
    /\ Len(processing_errors) = 2

\* C7 (as claimed): when process_message returns for a message with both
\* successful and failed references, the result carries the combined amount
\* and the failure reasons are surfaced: in the result, in the metadata that
\* will be recorded, or in an operator message.
C7_FailuresSurfaced ==
    (pc = "pm_returned" /\ InPM /\ SuccessCalls # <<>> /\ FailedCalls # <<>>) =>
        /\ result.credit_amount = Some(SumAmounts(SuccessCalls))
        /\ \/ result.error # None
           \/ metadata_of(result).error # None
           \/ DmCalls # <<>>

\* C8 (as claimed): a message whose references are all resolved and
\* classified out of scope is not treated as an error: no direct message is
\* sent and no reply is posted.
C8_OutOfScopeIsSilent ==
    (/\ pc = "pm_returned"
     /\ InPM
     /\ Len(ResolveCalls) = Len(parsed.looker_urls)
     /\ \A k \in 1..Len(ResolveCalls) : ResolveCalls[k].ok
     /\ ExecuteCalls = <<>>) =>
        /\ DmCalls = <<>>
        /\ ReplyCalls = <<>>

ExactlyOneOutcome(r) ==
    \/ r.success = TRUE /\ r.credit_amount # None /\ r.error = None
    \/ r.success = FALSE /\ r.credit_amount = None /\ r.error # None

\* C9: every processed record holds exactly one outcome: success with an
\* amount and no error, or failure with an error and no amount; so does
\* every result process_message returns.
C9_ExactlyOneOutcome ==
    /\ \A ts \in DOMAIN state.processing_details :
          ExactlyOneOutcome(state.processing_details[ts])
    /\ (pc = "pm_returned" => ExactlyOneOutcome(result))

\* Records of all three kinds occur; here a failure with its reasons.
C9_Witness ==
    \E ts \in DOMAIN state.processing_details :
        /\ state.processing_details[ts].success = FALSE
        /\ Len(state.processing_details[ts].error) = 2

\* C11 (as claimed): when process_message returns for a message with at
\* least one reference, a success has exactly one reply call in the thread
\* carrying the total and no direct message, and a failure has exactly one
\* direct message, addressed to the configured operator, and no reply.
C11_OneReplyOrOneDm ==
    (pc = "pm_returned" /\ InPM) =>
        IF result.success
        THEN /\ Len(ReplyCalls) = 1
             /\ ReplyCalls[1].ts = parsed.message_ts
             /\ ReplyCalls[1].amount = result.credit_amount
             /\ DmCalls = <<>>
        ELSE /\ Len(DmCalls) = 1
             /\ DmCalls[1].ts = parsed.message_ts
             /\ DmCalls[1].to = configured_user_id
             /\ ReplyCalls = <<>>

\* The product keyword occurs inside one of the two recognized column
\* contexts: a condition on one of the two columns compares it with the
\* keyword.
RecognizedColumns ==
    {"billable_item_metadata_alex.product", "billable_items.friendly_name"}

KeywordInContext(q) ==
    \E k \in 1..(Len(q) - 1) :
        /\ k % 2 = 1
        /\ q[k] \in RecognizedColumns
        /\ Lower(q[k + 1]) = "authy"

\* C12 (as claimed): the classification of a resolved query is true exactly
\* when the product keyword occurs inside one of the two recognized column
\* contexts; it is false when the keyword is absent or occurs only outside
\* both contexts.
C12_KeywordInContextOnly ==
    (pc \in {"pm_loop", "pm_returned", "raised"} /\ sql_query # None) =>
        is_verify = KeywordInContext(sql_query[1])

\* C13 (as claimed): the parsed request handed to process_message holds
\* every Looker link of the message text in text order, and when run_once
\* has ended each due message with n Looker links has had n resolve calls,
\* one per link, in text order.
C13_AllLinksResolvedInOrder ==
    /\ pc = "call_pm" =>
          /\ "looker_urls" \in DOMAIN parsed
          /\ parsed.looker_urls = extract_looker_urls(unprocessed[i].text)
    /\ RunEnded =>
          \A k \in DueMessages :
              LET links    == extract_looker_urls(messages[k].text)
                  resolves == CallsOf("resolve", messages[k].ts)
              IN  /\ Len(resolves) = Len(links)
                  /\ \A j \in 1..Len(links) : resolves[j].url = links[j]

\* The invocation is inside run_once after the fetch.
InRun == pc \in {"loop", "call_pm", "returned", "raised"}

\* C14: a fetched message authored by a bot is discarded.  It is never the
\* request handed to process_message, no resolve, execute, reply or
\* direct-message call is made for it, it is in the processed set and in the
\* records only if it was there when the run started, and the step of the
\* loop that meets it changes nothing in the in-memory state, in either
\* store or in the calls made.
C14_BotMessageDiscarded ==
    /\ [](InRun =>
            \A k \in 1..Len(messages) :
                messages[k].bot =>
                    LET ts == messages[k].ts
                    IN  /\ parsed.message_ts # ts
                        /\ ts \notin CalledIds
                        /\ (ts \in ProcessedIds(state) <=> ts \in start_processed)
                        /\ (ts \notin start_processed =>
                                ts \notin DOMAIN state.processing_details))
    /\ [][(pc = "loop" /\ i <= Len(unprocessed) /\ unprocessed[i].bot) =>
            /\ pc' = "loop"
            /\ i' = i + 1
            /\ UNCHANGED <<state, local_file, s3_object, calls, parsed>>]_vars

\* A run met a bot message that was unprocessed at its start and returned.
C14_Witness ==
    /\ pc = "returned"
    /\ Len(unprocessed) >= 1
    /\ i > Len(unprocessed)
    /\ \E k \in 1..Len(unprocessed) :
          unprocessed[k].bot /\ unprocessed[k].ts \notin start_processed

\* A step of SpecSM that is a call of the named StateManager method.
IsCall(op) == clock' # clock /\ last_call'.op = op

\* C15: mark_processed on an id that is already processed changes neither
\* the in-memory state (processed list, total_processed, the stored record
\* of the id) nor either store and attempts no write; and marking an id
\* twice gives the state that marking it once gives.
C15_MarkProcessedIdempotent ==
    /\ [][(IsCall("mark_processed") /\ is_processed(state, last_call'.id)) =>
            /\ state' = state
            /\ local_file' = local_file
            /\ s3_object' = s3_object
            /\ writes' = <<>>]_vars
    /\ [](pc = "sm_ready" =>
            \A id \in MarkedIds, m1 \in Metadatas, m2 \in Metadatas :
                LET once == mark_processed(state, id, m1, clock + 1)
                IN  mark_processed(once, id, m2, clock + 2) = once)

\* mark_processed was called with other metadata on an id already recorded.
C15_Witness ==
    /\ pc = "sm_ready"
    /\ last_call.op = "mark_processed"
    /\ ~last_call.mutating
    /\ last_call.metadata = None
    /\ last_call.id \in DOMAIN state.processing_details
    /\ state.processing_details[last_call.id].processed_at < clock
    /\ writes = <<>>

\* C16 (as claimed): whenever the state manager is at rest, total_processed
\* equals the number of ids in processed_messages.
C16_TotalEqualsCount ==
    pc = "sm_ready" => state.total_processed = Len(state.processed_messages)

\* C16 (amended): total_processed counts the ids ever added: a call of
\* mark_processed with a new id raises it and the number of ids by one,
\* cleanup_old_entries removes ids without lowering it, and it is never
\* smaller than the number of ids in processed_messages.
C16_TotalCountsEveryIdAdded ==
    /\ [](pc = "sm_ready" =>
            state.total_processed >= Len(state.processed_messages))
    /\ [][(IsCall("mark_processed") /\ last_call'.mutating) =>
            /\ state'.total_processed = state.total_processed + 1
            /\ Len(state'.processed_messages) = Len(state.processed_messages) + 1]_vars
    /\ [][IsCall("cleanup_old_entries") =>
            state'.total_processed = state.total_processed]_vars

\* A cleanup removed an id and left total_processed above the count.
C16_Witness ==
    /\ pc = "sm_ready"
    /\ last_call.op = "cleanup_old_entries"
    /\ last_call.mutating
    /\ state.total_processed = max_entries + 1
    /\ Len(state.processed_messages) = max_entries

\* The last call was mark_processed with a new id, its write to the local
\* file worked and its write to S3 failed.
MarkedInFallbackOnly ==
    /\ last_call.op = "mark_processed"
    /\ last_call.mutating
    /\ writes = <<Write("local", TRUE), Write("s3", FALSE)>>

\* C17 (as claimed): when the S3 write of a mark_processed fails and the
\* local write works, the local file holds everything processed so far, and
\* the next load treats every id the local file holds as processed.
C17_FallbackSurvivesPrimaryFailure ==
    /\ []((pc = "sm_ready" /\ MarkedInFallbackOnly) => local_file = Doc(state))
    /\ [][(pc = "idle" /\ pc' = "sm_ready" /\ MarkedInFallbackOnly) =>
            /\ is_processed(state', last_call.id)
            /\ ProcessedIds(local_file.doc) \subseteq ProcessedIds(state')]_vars

\* The last call changed the state, so it saved it.
MutatingCall ==
    /\ last_call.op \in {"mark_processed", "update_last_check", "cleanup_old_entries"}
    /\ last_call.mutating

\* C19: after a mutating call (mark_processed of a new id, update_last_check,
\* a cleanup that removed entries) exactly one write of the snapshot to the
\* local file has been attempted, followed by exactly one write to S3 when S3
\* is enabled and none otherwise; a write that worked left the in-memory
\* state in its store; and when the S3 write failed the call still returned
\* with the in-memory state changed and the local file as written.
C19_SaveOnEveryMutation ==
    (pc = "sm_ready" /\ MutatingCall) =>
        /\ Len(writes) = IF use_s3 THEN 2 ELSE 1
        /\ writes[1].target = "local"
        /\ (writes[1].ok => local_file = Doc(state))
        /\ (use_s3 => writes[2].target = "s3")
        /\ (use_s3 /\ writes[2].ok => s3_object = Doc(state))
        /\ (last_call.op = "mark_processed" => is_processed(state, last_call.id))
        /\ (last_call.op = "update_last_check" =>
                state.last_check_timestamp = Some(clock))

\* The S3 write of a mark_processed failed: the call returned, the id is
\* processed in memory and in the local file, and S3 holds something else.
C19_Witness ==
    /\ pc = "sm_ready"
    /\ use_s3
    /\ MarkedInFallbackOnly
    /\ is_processed(state, last_call.id)
    /\ local_file = Doc(state)
    /\ s3_object # Doc(state)

\* C20: after a load with S3 enabled and holding a snapshot that could be
\* read, the state is the snapshot of S3 and one write of it to the local
\* file has been attempted, which leaves the local file equal to the S3
\* object when it works; in every other case no write is attempted and the
\* state is the local file's snapshot, or an empty state when there is none.
C20_LoadPrefersPrimary ==
    (pc = "sm_ready" /\ last_call.op = "load") =>
        IF use_s3 /\ s3_object.kind = "doc" /\ last_call.s3_read_ok
        THEN /\ state = s3_object.doc
             /\ Len(writes) = 1
             /\ writes[1].target = "local"
             /\ (writes[1].ok => local_file = s3_object)
        ELSE /\ writes = <<>>
             /\ (local_file.kind = "doc" => state = local_file.doc)
             /\ (local_file.kind = "absent" => state = create_empty_state(clock))

\* A load took the S3 snapshot, which holds a processed id, and mirrored it.
C20_Witness ==
    /\ pc = "sm_ready"
    /\ last_call.op = "load"
    /\ use_s3
    /\ last_call.s3_read_ok
    /\ s3_object.kind = "doc"
    /\ state = s3_object.doc
    /\ Len(state.processed_messages) >= 1
    /\ writes = <<Write("local", TRUE)>>
    /\ local_file = s3_object

\* The messages before position k of the unprocessed list that are not bot
\* messages: the ones the pass has recorded when it handles message k.
HandledBefore(k) == {j \in 1..(k - 1) : ~unprocessed[j].bot}

\* C18: the step of the pass that marks a message processed attempts the
\* write of the snapshot in that same step, before the loop goes on; so
\* while the pass handles message k (or has stopped there), the in-memory
\* state holds every earlier message with its outcome, a write of it has
\* been attempted, each store whose last write worked holds exactly that
\* state, and with no failed write the local file does.
C18_SavedAfterEachMessage ==
    /\ [][(pc = "pm_returned" /\ pc' = "recorded") =>
            /\ Recorded(parsed.message_ts)'
            /\ state'.processing_details[parsed.message_ts].success = result.success
            /\ Len(writes') = (IF use_s3 THEN 2 ELSE 1)
            /\ (writes'[1].ok => local_file' = Doc(state'))
            /\ (use_s3 /\ writes'[2].ok => s3_object' = Doc(state'))]_vars
    /\ []((pc \in {"call_pm", "pm_returned", "raised"} /\ HandledBefore(i) # {}) =>
            /\ \A j \in HandledBefore(i) : Recorded(unprocessed[j].ts)
            /\ writes # <<>>
            /\ (writes[1].ok => local_file = Doc(state))
            /\ (use_s3 /\ writes[2].ok => s3_object = Doc(state))
            /\ (faults = 0 => local_file = Doc(state)))

\* The pass stopped while handling its second message, and the local file
\* holds the first one with its outcome.
C18_Witness ==
    /\ pc = "raised"
    /\ i = 2
    /\ ~unprocessed[1].bot
    /\ local_file.kind = "doc"
    /\ unprocessed[1].ts \in DOMAIN local_file.doc.processing_details
    /\ local_file.doc.processing_details[unprocessed[1].ts].success
    /\ is_processed(local_file.doc, unprocessed[1].ts)

\* The store the load reads last is damaged: the local file is, and S3 is
\* disabled, absent or damaged too.
NoUsableSnapshot ==
    /\ local_file \in {Invalid, Fieldless}
    /\ (use_s3 => s3_object \in {Absent, Invalid, Fieldless})

\* C21 (as claimed): loading never leaves a state that makes a later call
\* fail.  After a load the state has the fields of a snapshot; when the
\* stored snapshot is not JSON or lacks the fields, the state is the empty
\* snapshot; and no call on the state manager raises.
C21_DamagedSnapshotIsEmptyState ==
    /\ pc # "raised"
    /\ (pc \in {"sm_ready", "sm_malformed"} /\ last_call.op = "load") =>
          /\ has_fields(state)
          /\ (NoUsableSnapshot => state = create_empty_state(clock))

\* C22: a call of mark_processed or of update_last_check removes no id
\* from the processed set: every id that was in it before the call is in it
\* after the call, at the same position of the list.
C22_OnlyCleanupRemoves ==
    [][(pc = "sm_ready" /\ pc' = "sm_ready"
        /\ (IsCall("mark_processed") \/ IsCall("update_last_check"))) =>
          /\ ProcessedIds(state) \subseteq ProcessedIds(state')
          /\ \A k \in 1..Len(state.processed_messages) :
                state'.processed_messages[k] = state.processed_messages[k]]_vars

\* update_last_check was called on a state that holds two processed ids.
C22_Witness ==
    /\ pc = "sm_ready"
    /\ last_call.op = "update_last_check"
    /\ Len(state.processed_messages) = 2
    /\ state.last_check_timestamp = Some(clock)

LoggedIds == {log[k].ts : k \in 1..Len(log)}

\* No stored snapshot is damaged: each store is empty or holds a snapshot
\* the program wrote.
StoresIntact ==
    \A store \in {local_file, s3_object} :
        store = Absent \/ (store.kind = "doc" /\ has_fields(store.doc))

C25_SingleFlightLosesNothing ==
    (/\ pc = "sm_ready"
     /\ last_call.op = "load"
     /\ use_s3
     /\ StoresIntact
     /\ Len(log) <= max_entries) =>
        \A ts \in LoggedIds : is_processed(state, ts)

\* C26: when run_once has ended, every message of the unprocessed list that
\* is not a bot message has been handed to process_message in this run.
C26_EveryDueMessageAttempted ==
    RunEnded =>
        \A p \in 1..Len(unprocessed) : ~is_bot_message(unprocessed[p]) => p <= i

\* C27: when run_once has returned normally, last_check_timestamp is the
\* time of this run and the last thing done was one save of that state: a
\* write to the local file, then one to S3 when S3 is enabled, each leaving
\* the in-memory state in its store when it worked.  This holds on the early
\* return without unprocessed messages as well.
C27_ReturnStampsAndSaves ==
    pc = "returned" =>
        /\ state.last_check_timestamp = Some(clock)
        /\ Len(writes) = IF use_s3 THEN 2 ELSE 1
        /\ writes[1].target = "local"
        /\ (writes[1].ok => local_file = Doc(state))
        /\ (use_s3 => writes[2].target = "s3")
        /\ (use_s3 /\ writes[2].ok => s3_object = Doc(state))

\* A run fetched messages, found all of them processed already, and
\* returned early with the stamp set and saved in both stores.
C27_Witness ==
    /\ pc = "returned"
    /\ messages # <<>>
    /\ unprocessed = <<>>
    /\ use_s3
    /\ state.last_check_timestamp = Some(clock)
    /\ local_file = Doc(state)
    /\ s3_object = Doc(state)

\* C28: when process_message returns for a request of which no reference
\* produced an amount and at least one failed, every reference has been
\* looked at, the result is a failure without amount, and its error holds
\* exactly one reason for each failed reference, in reference order; a
\* reference skipped as out of scope adds nothing.
C28_AllFailedIsFailure ==
    (pc = "pm_returned" /\ InPM /\ SuccessCalls = <<>> /\ FailedCalls # <<>>) =>
        /\ Len(ResolveCalls) = Len(parsed.looker_urls)
        /\ result.success = FALSE
        /\ result.credit_amount = None
        /\ result.urls_processed = <<>>
        /\ Len(result.error) = Len(FailedCalls)
        /\ \A k \in 1..Len(FailedCalls) :
              /\ result.error[k] = ReasonOf(FailedCalls[k])
              /\ \A j \in 1..(k - 1) : FailedCalls[j].idx < FailedCalls[k].idx

\* [fail, out of scope, fail]: the first reference could not be resolved,
\* the second was skipped, the third failed in the notebook; two reasons.
C28_Witness ==
    /\ pc = "pm_returned"
    /\ InPM
    /\ Len(parsed.looker_urls) = 3
    /\ ~ResolveCalls[1].ok
    /\ ResolveCalls[2].ok
    /\ Len(ExecuteCalls) = 1
    /\ ExecuteCalls[1].idx = 3
    /\ ~ExecuteCalls[1].ok
    /\ result.success = FALSE
    /\ Len(result.error) = 2

\* Reference k was resolved and skipped: no notebook execution for it.
SkippedReference(k) ==
    /\ ResolveCalls[k].ok
    /\ \A e \in 1..Len(ExecuteCalls) : ExecuteCalls[e].idx # k

\* The position reference k would have in the list without the skipped
\* references.
RankWithoutSkipped(k) == Cardinality({j \in 1..k : ~SkippedReference(j)})

\* C29 (as claimed): at the end of process_message the total, the included
\* list and the error list are those of the list without the out-of-scope
\* references; the reasons of the error list are then numbered by position
\* in that shorter list.
C29_SameAsIfAbsent ==
    (pc = "pm_returned" /\ InPM /\ Len(ResolveCalls) = Len(parsed.looker_urls)) =>
        /\ total_credit = SumAmounts(SuccessCalls)
        /\ Len(successful_executions) = Len(SuccessCalls)
        /\ Len(processing_errors) = Len(FailedCalls)
        /\ \A k \in 1..Len(FailedCalls) :
              processing_errors[k] =
                  ErrorPart(RankWithoutSkipped(FailedCalls[k].idx),
                            ReasonOf(FailedCalls[k]).msg)

\* The step of the loop in which the reference at idx is resolved and found
\* out of scope (classified so, or without the keyword at all).
OutOfScopeStep ==
    /\ pc = "pm_loop"
    /\ idx <= Len(parsed.looker_urls)
    /\ calls' # calls
    /\ sql_query' # None
    /\ (~is_verify' \/ ~in_sql_lower("authy", sql_query'[1]))

\* C29 (amended): the step that finds a reference out of scope makes the
\* resolve call only and leaves the total, the included list and the error
\* list as they were, and the loop goes on; at the end the total and the
\* included list come from the successful references alone, and the error
\* list holds the reasons of the failed references in order, each numbered
\* by its position in the full list.
C29_OutOfScopeChangesNothing ==
    /\ [][OutOfScopeStep =>
            /\ calls' = Append(calls, Call("resolve", parsed.message_ts, idx,
                                           parsed.looker_urls[idx], TRUE, None))
            /\ total_credit' = total_credit
            /\ successful_executions' = successful_executions
            /\ processing_errors' = processing_errors
            /\ idx' = idx + 1
            /\ pc' = "pm_loop"]_vars
    /\ []((pc = "pm_returned" /\ InPM) =>
            /\ total_credit = SumAmounts(SuccessCalls)
            /\ Len(successful_executions) = Len(SuccessCalls)
            /\ \A k \in 1..Len(SuccessCalls) :
                  successful_executions[k] =
                      [url |-> SuccessCalls[k].url, amount |-> SuccessCalls[k].amount[1]]
            /\ Len(processing_errors) = Len(FailedCalls)
            /\ \A k \in 1..Len(FailedCalls) :
                  /\ ~SkippedReference(FailedCalls[k].idx)
                  /\ processing_errors[k].idx = FailedCalls[k].idx)

\* The first reference gave 10.00, the second was just found out of scope:
\* the total is still 10.00 with one reference included and no error.
C29_Witness ==
    /\ pc = "pm_loop"
    /\ InPM
    /\ idx = 3
    /\ sql_query # None
    /\ ~is_verify
    /\ Len(ResolveCalls) = 2
    /\ Len(ExecuteCalls) = 1
    /\ ExecuteCalls[1].idx = 1
    /\ total_credit = 1000
    /\ Len(successful_executions) = 1
    /\ processing_errors = <<>>

\* The position in the unprocessed list of the message with this id.
PositionOf(ts) == CHOOSE p \in 1..Len(unprocessed) : unprocessed[p].ts = ts

\* C30: the pass handles one message at a time in the order of the
\* unprocessed list: the calls made (resolve, execute, reply, operator
\* message) are grouped by message in list order, only the message at the
\* loop's position gets calls, and when a message gets its first call every
\* earlier message of the list that is not a bot message has been marked
\* processed with its outcome.
C30_OneMessageAtATime ==
    /\ [][calls' # calls =>
            /\ Len(calls') > Len(calls)
            /\ SubSeq(calls', 1, Len(calls)) = calls
            /\ \A c \in (Len(calls) + 1)..Len(calls') :
                  /\ i <= Len(unprocessed)
                  /\ calls'[c].ts = unprocessed[i].ts
                  /\ \A j \in HandledBefore(i) : Recorded(unprocessed[j].ts)]_vars
    /\ [][i' \in {i, i + 1}]_vars
    /\ [](\A a, b \in 1..Len(calls) :
            a < b => PositionOf(calls[a].ts) <= PositionOf(calls[b].ts))

\* A pass over two user messages has returned: the calls of the first
\* message of the list come before those of the second, and both messages
\* are recorded.
C30_Witness ==
    /\ pc = "returned"
    /\ Len(unprocessed) = 2
    /\ \A p \in 1..2 : ~is_bot_message(unprocessed[p]) /\ Recorded(unprocessed[p].ts)
    /\ Len(calls) >= 2
    /\ calls[1].ts = unprocessed[1].ts
    /\ calls[Len(calls)].ts = unprocessed[2].ts
    /\ calls[Len(calls)].op = "reply"

\* The ids of a snapshot are exactly the ids with a record, and each record
\* holds the outcome and the time it was recorded.
RecordsMatchIds(st) ==
    /\ DOMAIN st.processing_details = ProcessedIds(st)
    /\ \A ts \in DOMAIN st.processing_details :
          DOMAIN st.processing_details[ts] =
              {"success", "credit_amount", "error", "processed_at"}

\* The in-memory snapshot and every stored snapshot have matching ids and
\* records.
RecordsMatchEverywhere ==
    /\ (pc = "sm_ready" => RecordsMatchIds(state))
    /\ \A store \in {local_file, s3_object} :
          (store.kind = "doc" /\ has_fields(store.doc)) => RecordsMatchIds(store.doc)

\* C31: starting from the empty store (where it holds), every step other
\* than a mark_processed without metadata, which run_once never makes,
\* keeps this true: an id is in processed_messages if and only if
\* processing_details holds its record; this includes the cleanup, the
\* saves and the reload by the next process.
C31_ProcessedIffRecorded ==
    /\ (pc = "idle" /\ clock = 0) => RecordsMatchEverywhere
    /\ [][(/\ RecordsMatchEverywhere
           /\ ~(IsCall("mark_processed") /\ last_call'.metadata = None)) =>
              RecordsMatchEverywhere']_vars

\* Three ids were recorded with their outcomes and a cleanup removed the
\* oldest: ids and records still match, in memory and in the local file.
C31_Witness ==
    /\ pc = "sm_ready"
    /\ last_call.op = "cleanup_old_entries"
    /\ last_call.mutating
    /\ state.total_processed = max_entries + 1
    /\ Cardinality(ProcessedIds(state)) = max_entries
    /\ RecordsMatchIds(state)
    /\ local_file = Doc(state)

\* The S3 write of the last mutating call failed.
PrimaryWriteFailed ==
    /\ use_s3
    /\ MutatingCall
    /\ Len(writes) = 2
    /\ ~writes[2].ok

\* C32: a mutating call attempts one write to the local file and, with S3
\* enabled, one write to S3, whether or not they work; and when the S3
\* write of one mutating call has failed and that of the next one works, S3
\* then holds the whole in-memory snapshot, with every id that was in
\* memory before the call (a cleanup removing its oldest ones aside).
C32_FailedWriteCaughtUpByNext ==
    /\ []((pc = "sm_ready" /\ MutatingCall) =>
            /\ Len(SelectSeq(writes, LAMBDA w : w.target = "local")) = 1
            /\ Len(SelectSeq(writes, LAMBDA w : w.target = "s3")) =
                   (IF use_s3 THEN 1 ELSE 0))
    /\ [][(/\ pc = "sm_ready"
           /\ pc' = "sm_ready"
           /\ PrimaryWriteFailed
           /\ clock' # clock
           /\ MutatingCall'
           /\ writes'[Len(writes')].ok) =>
              /\ s3_object' = Doc(state')
              /\ (last_call'.op # "cleanup_old_entries" =>
                    ProcessedIds(state) \subseteq ProcessedIds(s3_object'.doc))]_vars

\* Two ids were marked by one process that used up the one failure allowed;
\* the last write to S3 worked and S3 holds both ids.
C32_Witness ==
    /\ pc = "sm_ready"
    /\ use_s3
    /\ clock = 3
    /\ faults = 1
    /\ last_call.op = "mark_processed"
    /\ last_call.mutating
    /\ writes = <<Write("local", TRUE), Write("s3", TRUE)>>
    /\ Len(state.processed_messages) = 2
    /\ s3_object = Doc(state)
    /\ local_file = Doc(state)

\* C33: after a mutating call whose write to the local file worked, the
\* local file holds a document with every field of the in-memory snapshot
\* and the same value in each: the processed ids, the records, the last
\* check, total_processed and created_at.
C33_LocalFileIsWholeSnapshot ==
    (pc = "sm_ready" /\ MutatingCall /\ writes[1].target = "local" /\ writes[1].ok) =>
        /\ local_file.kind = "doc"
        /\ DOMAIN local_file.doc = DOMAIN state
        /\ local_file.doc.processed_messages = state.processed_messages
        /\ local_file.doc.processing_details = state.processing_details
        /\ local_file.doc.last_check_timestamp = state.last_check_timestamp
        /\ local_file.doc.total_processed = state.total_processed
        /\ local_file.doc.created_at = state.created_at

\* After two ids with their outcomes, update_last_check wrote the local
\* file: it holds both ids and both records, not only the new stamp.
C33_Witness ==
    /\ pc = "sm_ready"
    /\ last_call.op = "update_last_check"
    /\ writes[1] = Write("local", TRUE)
    /\ local_file.kind = "doc"
    /\ Len(local_file.doc.processed_messages) = 2
    /\ Cardinality(DOMAIN local_file.doc.processing_details) = 2
    /\ local_file.doc.last_check_timestamp = Some(clock)
    /\ local_file.doc.total_processed = 2

\* C34: the pass ends, by its return or by an exception, and on the way it
\* takes each message of the unprocessed list at most once: the loop's
\* position never goes back, and a message handed to process_message has
\* not been handed to it before (no call for it yet, no record of it).
C34_RunOnceTerminates ==
    /\ <>(pc \in {"returned", "raised"})
    /\ [][i' >= i]_vars
    /\ [][(pc = "loop" /\ pc' = "call_pm") =>
            /\ i' = i
            /\ parsed'.message_ts = unprocessed[i].ts
            /\ ~is_processed(state, unprocessed[i].ts)
            /\ \A c \in 1..Len(calls) : calls[c].ts # unprocessed[i].ts]_vars
    /\ [][(pc = "recorded" /\ pc' = "loop") => i' = i + 1]_vars

\* A pass over a bot message and a user message has returned with the
\* loop's position past the end of the list.
C34_Witness ==
    /\ pc = "returned"
    /\ Len(unprocessed) = 2
    /\ i = 3
    /\ is_bot_message(unprocessed[1])
    /\ ~is_bot_message(unprocessed[2])
    /\ Recorded(unprocessed[2].ts)

\* The host of the link is the Looker domain.
host_is_looker(url) == url \in {"looker/1", "looker/2"}

\* C35 (as claimed): extract_looker_urls returns exactly the links of the
\* text whose host is the Looker domain, in the order they occur.
C35_OnlyLookerHosts ==
    last_call.op = "extract_looker_urls" =>
        last_call.returned = SelectSeq(last_call.text, host_is_looker)

ReplyFailed ==
    /\ InPM
    /\ ReplyCalls # <<>>
    /\ ~ReplyCalls[1].ok

\* C37: when the post of the consolidated reply fails, process_message
\* returns success with the amount and posted_to_slack false, having tried
\* the post once; run_once records the message as processed with success
\* and that amount, so the filter of a run that starts from this state, or
\* from a store this save wrote, drops the message and nothing is posted
\* for it again.
C37_FailedReplyStillRecorded ==
    /\ (pc \in {"pm_returned", "recorded"} /\ ReplyFailed) =>
          /\ Len(ReplyCalls) = 1
          /\ result.success = TRUE
          /\ result.posted_to_slack = FALSE
          /\ result.credit_amount = Some(total_credit)
          /\ result.error = None
    /\ (pc = "recorded" /\ ReplyFailed) =>
          /\ Recorded(parsed.message_ts)
          /\ state.processing_details[parsed.message_ts].success = TRUE
          /\ state.processing_details[parsed.message_ts].credit_amount =
                 Some(total_credit)
          /\ get_unprocessed_messages(state, <<[ts |-> parsed.message_ts]>>) = <<>>
          /\ (writes[1].ok =>
                get_unprocessed_messages(local_file.doc,
                                         <<[ts |-> parsed.message_ts]>>) = <<>>)
          /\ (use_s3 /\ writes[2].ok =>
                get_unprocessed_messages(s3_object.doc,
                                         <<[ts |-> parsed.message_ts]>>) = <<>>)

\* A request whose one reference gave 10.00 was recorded as a success with
\* that amount although the reply could not be posted.
C37_Witness ==
    /\ pc = "recorded"
    /\ ReplyFailed
    /\ result.success
    /\ ~result.posted_to_slack
    /\ Recorded(parsed.message_ts)
    /\ state.processing_details[parsed.message_ts].success = TRUE
    /\ state.processing_details[parsed.message_ts].credit_amount = Some(1000)
    /\ local_file = Doc(state)

\* C38 (as claimed): every notebook execution that reports success carries
\* an amount, and the loop of process_message never fails on adding one.
C38_SuccessCarriesAmount ==
    /\ \A k \in 1..Len(ExecuteCalls) :
          ExecuteCalls[k].ok => ExecuteCalls[k].amount # None
    /\ (InPM => pc # "raised")

\* C39: when the fetch gives an empty list, because it failed or because
\* the channel is empty, run_once returns normally in that step: no request
\* is parsed and no resolve, execute, reply or operator message is made;
\* the processed ids, the records and total_processed stay as loaded; the
\* last check is set to the time of the run and one save of the state is
\* attempted.
C39_FailedFetchIsEmptyChannel ==
    [][(pc = "initialized" /\ pc' # "initialized" /\ messages' = <<>>) =>
          /\ pc' = "returned"
          /\ unprocessed' = <<>>
          /\ parsed' = NoParsed
          /\ calls' = <<>>
          /\ state'.processed_messages = state.processed_messages
          /\ state'.processing_details = state.processing_details
          /\ state'.total_processed = state.total_processed
          /\ state'.last_check_timestamp = Some(clock)
          /\ Len(writes') = (IF use_s3 THEN 2 ELSE 1)
          /\ (writes'[1].ok => local_file' = Doc(state'))
          /\ (use_s3 /\ writes'[2].ok => s3_object' = Doc(state'))]_vars

\* The channel holds a message but the fetch failed: the run returned
\* with the earlier record still in the state and the new stamp saved.
C39_Witness ==
    /\ pc = "returned"
    /\ channel # <<>>
    /\ messages = <<>>
    /\ faults = 1
    /\ calls = <<>>
    /\ state.processed_messages # <<>>
    /\ ProcessedIds(state) = start_processed
    /\ state.last_check_timestamp = Some(clock)
    /\ local_file = Doc(state)

\* C40: a call of update_last_check sets last_check_timestamp to the time
\* of the call and leaves every other field of the snapshot as it was:
\* processed_messages, processing_details, total_processed and created_at,
\* and it adds or removes no field.
C40_UpdateLastCheckFrame ==
    [][(pc = "sm_ready" /\ IsCall("update_last_check")) =>
          /\ state'.last_check_timestamp = Some(clock')
          /\ state'.processed_messages = state.processed_messages
          /\ state'.processing_details = state.processing_details
          /\ state'.total_processed = state.total_processed
          /\ state'.created_at = state.created_at
          /\ DOMAIN state' = DOMAIN state]_vars

\* update_last_check was called on a snapshot created earlier that holds
\* one id with its record.
C40_Witness ==
    /\ pc = "sm_ready"
    /\ last_call.op = "update_last_check"
    /\ state.last_check_timestamp = Some(clock)
    /\ state.created_at < clock
    /\ state.total_processed = 1
    /\ Len(state.processed_messages) = 1
    /\ DOMAIN state.processing_details = ProcessedIds(state)

====
